---- MODULE Spec2Model ----
(***************************************************************************)
(* Model of CondorAgent/post_submit_cleanup.py: the LocalSubmitCleaner     *)
(* thread, which removes the work directory and the record file of         *)
(* clusters that have left the condor queue.                               *)
(*                                                                         *)
(* Text is modelled as sequences of one-character strings, a path as the   *)
(* sequence of its components.  The clock and                               *)
(* the modification times of files count ticks of half a second; the mtime *)
(* unpacked from the os.stat tuple is a whole number of seconds.           *)
(***************************************************************************)
EXTENDS Integers, Sequences, FiniteSets, TLC

VARIABLES pc, stopevent, dryrun, sleeptime, deadline, now,
          todo, files, dirs, ev, queue, world, first, submitDir, cdata

vars == <<pc, stopevent, dryrun, sleeptime, deadline, now,
          todo, files, dirs, ev, queue, world, first, submitDir, cdata>>

----------------------------------------------------------------------------
(* Bounds *)

\* the clock stops advancing here (in ticks)
MaxNow == 1202
\* longest stdout enumerated for the probe function
MaxOutLen == 4
\* how many of the record files present at the start are malformed
MaxMalformed == 1

----------------------------------------------------------------------------
(* Program constants and small input sets *)

\* resolution of time.time() and of a file's modification time
TicksPerSecond == 2
\* time.time() - mtime < 300
AgeLimit == 300
\* jobCount = None
None == -1
\* def __init__(self, dryrun=False, sleeptime=600)
DefaultSleepTime == 600

NL == "\n"
SP == " "
Whitespace == {SP, NL}
Alphabet == {"4", "2", SP, NL}

Records == {"A", "B"}
\* what the record file holds
Kinds == {"ok", "corrupt", "notdict", "noclusterid", "notmpdir"}
\* the clusterid stored in well-formed records
ClusterId == <<"4", "2">>
ClusterIds == {<<"4">>, <<"4", "2">>}

SleepTimes == {0, DefaultSleepTime}
\* how far the clock moves in one step, in ticks
TickSteps == {AgeLimit * TicksPerSecond - 1, AgeLimit * TicksPerSecond + 1}
\* modification times of the record files present at the start, in ticks
StartMtimes == {0, 1}
\* directories CONDOR_AGENT_SUBMIT_DIR can name: an absolute path and a path
\* relative to the working directory of the process
SubmitDirs == {"/submit", "submit"}
\* what util.getCondorConfigVal gives: nothing, a directory, an exception
ConfigOutcomes == {"", "raise"} \cup SubmitDirs

\* stdout of condor_q used in the thread model
StdoutSamples ==
  { <<>>,
    <<SP, "4", "2", NL>>,
    <<"4", "2", NL, SP, "4", "2">> }
\* what the environment does to one record's processing: nothing, running
\* the probe command raises, rmtree fails (leaving the tree whole or partly
\* removed), os.remove fails
Faults == {"none", "probe", "rmtree", "rmtree_partial", "remove"}
StderrSamples == { <<>>, <<"4">> }
ReturnCodes == {0, 1}

----------------------------------------------------------------------------
(* Text helpers *)

RECURSIVE SeqsUpTo(_)
SeqsUpTo(n) ==
  IF n = 0 THEN { <<>> }
  ELSE LET S == SeqsUpTo(n - 1)
       IN S \cup { Append(s, c) : s \in { t \in S : Len(t) = n - 1 }, c \in Alphabet }

\* position after the longest run of whitespace starting at position i
RECURSIVE SkipWs(_, _)
SkipWs(s, i) ==
  IF i <= Len(s) /\ s[i] \in Whitespace THEN SkipWs(s, i + 1) ELSE i

\* does the literal lit occur in s at position i
LitAt(s, i, lit) ==
  /\ i + Len(lit) - 1 <= Len(s)
  /\ \A k \in 1..Len(lit) : s[i + k - 1] = lit[k]

\* '^' under re.M: start of the string or just after a newline
LineStart(s, i) == i = 1 \/ (i > 1 /\ i <= Len(s) + 1 /\ s[i - 1] = NL)

----------------------------------------------------------------------------
(* Queue prober *)

\* len(re.findall(r"^\s*<id>\s*", out, re.M)) scanning from position pos:
\* matches are found left to right and do not overlap; both \s* are greedy
\* and \s also matches the newline
RECURSIVE FindAllCount(_, _, _)
FindAllCount(out, id, pos) ==
  IF pos > Len(out) THEN 0
  ELSE IF LineStart(out, pos) /\ LitAt(out, SkipWs(out, pos), id)
       THEN 1 + FindAllCount(out, id, SkipWs(out, SkipWs(out, pos) + Len(id)))
       ELSE FindAllCount(out, id, pos + 1)

\* ' '.join(cmd) raises TypeError when cdata.get('clusterid') is None
CmdBuildRaises_Never(kind) == FALSE
CmdBuildRaises(kind) == kind = "noclusterid"

CondorJobsInQueue(id, return_code, stdout_value, stderr_value) ==
  IF Len(stderr_value) > 0 THEN None
  ELSE IF return_code = 0 THEN FindAllCount(stdout_value, id, 1)
       ELSE None

----------------------------------------------------------------------------
(* Paths *)

\* the components of a configured directory
Parts(d) == IF d = "" THEN <<>> ELSE IF d = "/submit" THEN <<"/", "submit">> ELSE <<d>>

IsAbs(path) == path # <<>> /\ path[1] = "/"

\* os.path.join(a, b): an absolute b discards a
Join(a, b) == IF IsAbs(b) THEN b ELSE a \o b

\* glob.glob(os.path.join(root, pattern)): the match for record file r
Match(root, r) == Join(Parts(root), <<r>>)

\* yield os.path.join(root, matches): root is joined a second time
Yielded(root, r) == Join(Parts(root), Match(root, r))

\* os.path.split(cfile)[1]
Split1(path) == path[Len(path)]

----------------------------------------------------------------------------
(* State *)

Gone == [exists |-> FALSE, mtime |-> 0, kind |-> "ok"]

\* what the outside holds for one record while nothing outside changes: the
\* answer of condor_q for its cluster and the filesystem call that fails
NoWorld == [rc |-> 0, out |-> <<>>, err |-> <<>>, fault |-> "none"]
\* the same for every record, with the configured directory
NoWorlds == [config |-> "", of |-> [r \in Records |-> NoWorld]]

NoEv == [op |-> "env", file |-> "", outcome |-> "", jobs |-> None,
         id |-> <<>>, rc |-> 0, stdout |-> <<>>, stderr |-> <<>>,
         loaded |-> FALSE, probed |-> FALSE, was |-> "",
         rmtree |-> "none", remove |-> "none", log |-> <<>>]

\* the terminal states of a record in one pass
Decisions ==
  {"STAT_ERROR", "TOO_YOUNG", "PARSE_ERROR", "PROBE_ERROR", "LIVE", "UNKNOWN", "DRY_RUN",
   "PARTIAL_REMOVE_WORK_DIR_FAILED", "PARTIAL_REMOVE_RECORD_FAILED", "REMOVED"}

\* the paths under which the record files are found (the submit directory
\* holds no directory of its own name)
IsRecordPath(path) == \E d \in SubmitDirs, r \in Records : path = Match(d, r)

\* the file a path names, Gone when it names none
FileAt(path) == IF IsRecordPath(path) THEN files[Split1(path)] ELSE Gone

\* permutations of a set of records, as sequences
Orders(S) ==
  { q \in UNION { [1..n -> S] : n \in {Cardinality(S)} } :
      \A i, j \in 1..Len(q) : i # j => q[i] # q[j] }

Init ==
  /\ pc = "test"
  /\ stopevent = FALSE
  /\ dryrun \in BOOLEAN
  /\ sleeptime \in SleepTimes
  /\ deadline = 0
  /\ now = 1
  /\ todo = <<>>
  /\ files \in [Records -> { [exists |-> TRUE, mtime |-> m, kind |-> k] :
                                m \in StartMtimes, k \in Kinds }]
  /\ Cardinality({ r \in Records : files[r].kind # "ok" }) <= MaxMalformed
  /\ dirs = [r \in Records |-> "present"]
  /\ ev = NoEv
  /\ queue = [r \in Records |-> "none"]
  /\ world = NoWorlds
  /\ first = [r \in Records |-> ""]
  /\ submitDir = ""
  /\ cdata = ""

----------------------------------------------------------------------------
(* run() *)

\* while not self._stopevent.isSet(): ... logging.info('Sleeping')
LoopTest_ScanFirst ==
  /\ pc = "test"
  /\ pc' = IF stopevent THEN "done" ELSE "config"
  /\ ev' = NoEv
  /\ UNCHANGED <<stopevent, dryrun, sleeptime, deadline, now, todo, files, dirs, queue, world, first, submitDir, cdata>>
LoopTest ==
  /\ pc = "test"
  /\ IF stopevent
     THEN /\ pc' = "done"
          /\ UNCHANGED deadline
     ELSE /\ pc' = "sleep"
          /\ deadline' = now + sleeptime * TicksPerSecond
  /\ ev' = NoEv
  /\ UNCHANGED <<stopevent, dryrun, sleeptime, now, todo, files, dirs, queue, world, first, submitDir, cdata>>

\* self._stopevent.wait(self._sleeptime) returns: the flag is set or the
\* timeout has elapsed; the flag is not read again before the pass
Wake_TimeoutOnly ==
  /\ pc = "sleep"
  /\ now >= deadline
  /\ pc' = "config"
  /\ deadline' = 0
  /\ ev' = NoEv
  /\ UNCHANGED <<stopevent, dryrun, sleeptime, now, todo, files, dirs, queue, world, first, submitDir, cdata>>
Wake ==
  /\ pc = "sleep"
  /\ stopevent \/ now >= deadline
  /\ pc' = "config"
  /\ deadline' = 0
  /\ ev' = NoEv
  /\ UNCHANGED <<stopevent, dryrun, sleeptime, now, todo, files, dirs, queue, world, first, submitDir, cdata>>

\* submitDir = util.getCondorConfigVal(...).replace('"', ''): the call is
\* outside any try block, so an exception raised by it leaves run()
ConfigLookup_NoSkip(v) ==
  /\ pc = "config"
  /\ IF v = "raise"
     THEN /\ pc' = "crashed"
          /\ ev' = [NoEv EXCEPT !.op = "config", !.outcome = "RAISED"]
          /\ UNCHANGED submitDir
     ELSE /\ pc' = "locate"
          /\ ev' = IF v = ""
                   THEN [NoEv EXCEPT !.op = "config", !.outcome = "NO_SUBMIT_DIR",
                                     !.log = <<"error:no_submit_dir">>]
                   ELSE NoEv
          /\ submitDir' = v
  /\ UNCHANGED <<stopevent, dryrun, sleeptime, deadline, now, todo, files, dirs, queue, world, first, cdata>>
ConfigLookup(v) ==
  /\ pc = "config"
  /\ IF v = "raise"
     THEN /\ pc' = "crashed"
          /\ ev' = [NoEv EXCEPT !.op = "config", !.outcome = "RAISED"]
          /\ UNCHANGED submitDir
     ELSE IF v = ""
          THEN /\ pc' = "test"
               /\ ev' = [NoEv EXCEPT !.op = "config", !.outcome = "NO_SUBMIT_DIR",
                                     !.log = <<"error:no_submit_dir">>]
               /\ UNCHANGED submitDir
          ELSE /\ pc' = "locate"
               /\ ev' = NoEv
               /\ submitDir' = v
  /\ UNCHANGED <<stopevent, dryrun, sleeptime, deadline, now, todo, files, dirs, queue, world, first, cdata>>

\* for c in self._locate('*.cluster', submitDir): glob.glob lists the
\* directory once, in directory order, when the loop starts, and the
\* generator yields each match joined to root again; root lives on only in
\* the paths it has yielded
Locate(order) ==
  /\ pc = "locate"
  /\ order \in Orders({ r \in Records : files[r].exists })
  /\ todo' = [i \in 1..Len(order) |-> Yielded(submitDir, order[i])]
  /\ submitDir' = ""
  /\ pc' = IF order = <<>> THEN "test" ELSE "process"
  /\ ev' = NoEv
  /\ UNCHANGED <<stopevent, dryrun, sleeptime, deadline, now, files, dirs, queue, world, first, cdata>>

----------------------------------------------------------------------------
(* _safeRemoveClusterFiles *)

\* (..., mtime, ctime) = os.stat(cfile): the items of the stat tuple are
\* integers, the modification time cut down to whole seconds
StatMtime(mtime) == mtime \div TicksPerSecond

\* if time.time() - mtime < 300: return   (compared in ticks)
TooYoung(mtime) ==
  now - StatMtime(mtime) * TicksPerSecond < AgeLimit * TicksPerSecond

\* if jobsInQueue == 0:
Eligible_Falsy(jobsInQueue) == jobsInQueue = 0 \/ jobsInQueue = None
Eligible(jobsInQueue) == jobsInQueue = 0

\* shutil.rmtree(cdata.get('tmpdir'), False) raises when tmpdir is missing
\* from the record (path None), when the directory does not exist, or when
\* the filesystem refuses
RmtreeRaises(kind, dirstate, fault) ==
  kind = "notmpdir" \/ dirstate = "absent" \/ fault \in {"rmtree", "rmtree_partial"}

\* os.remove(cfile) raises when the file is no longer there or when the
\* filesystem refuses
RemoveRaises(there, fault) == ~there \/ fault = "remove"

\* the try/except/else ladder: remove the path, and only in the else
\* branch of that try remove the record file
Removal_FileAnyway(e, plog, kind, dirstate, there, fault) ==
  IF RmtreeRaises(kind, dirstate, fault)
  THEN IF RemoveRaises(there, fault)
       THEN [e EXCEPT !.outcome = "PARTIAL_REMOVE_WORK_DIR_FAILED", !.rmtree = "failed",
                      !.remove = "failed",
                      !.log = plog \o <<"error:rmtree_failed", "error:remove_failed">>]
       ELSE [e EXCEPT !.outcome = "PARTIAL_REMOVE_WORK_DIR_FAILED", !.rmtree = "failed",
                      !.remove = "ok",
                      !.log = plog \o <<"error:rmtree_failed", "info:removed_file">>]
  ELSE IF RemoveRaises(there, fault)
  THEN [e EXCEPT !.outcome = "PARTIAL_REMOVE_RECORD_FAILED",
                 !.rmtree = "ok", !.remove = "failed",
                 !.log = plog \o <<"info:removed_path", "error:remove_failed">>]
  ELSE [e EXCEPT !.outcome = "REMOVED", !.rmtree = "ok", !.remove = "ok",
                 !.log = plog \o <<"info:removed_path", "info:removed_file">>]
Removal_FileFirst(e, plog, kind, dirstate, there, fault) ==
  IF RemoveRaises(there, fault)
  THEN [e EXCEPT !.outcome = "PARTIAL_REMOVE_RECORD_FAILED", !.remove = "failed",
                 !.log = plog \o <<"error:remove_failed">>]
  ELSE IF RmtreeRaises(kind, dirstate, fault)
  THEN [e EXCEPT !.outcome = "PARTIAL_REMOVE_WORK_DIR_FAILED",
                 !.remove = "ok", !.rmtree = "failed",
                 !.log = plog \o <<"info:removed_file", "error:rmtree_failed">>]
  ELSE [e EXCEPT !.outcome = "REMOVED", !.rmtree = "ok", !.remove = "ok",
                 !.log = plog \o <<"info:removed_file", "info:removed_path">>]
Removal(e, plog, kind, dirstate, there, fault) ==
  IF RmtreeRaises(kind, dirstate, fault)
  THEN [e EXCEPT !.outcome = "PARTIAL_REMOVE_WORK_DIR_FAILED", !.rmtree = "failed",
                 !.log = plog \o <<"error:rmtree_failed">>]
  ELSE IF RemoveRaises(there, fault)
  THEN [e EXCEPT !.outcome = "PARTIAL_REMOVE_RECORD_FAILED",
                 !.rmtree = "ok", !.remove = "failed",
                 !.log = plog \o <<"info:removed_path", "error:remove_failed">>]
  ELSE [e EXCEPT !.outcome = "REMOVED", !.rmtree = "ok", !.remove = "ok",
                 !.log = plog \o <<"info:removed_path", "info:removed_file">>]

\* the body of 'if jobsInQueue == 0': remove unless dry-run
Cleanup_IgnoreDryrun(e, plog, kind, dirstate, there, fault) ==
  Removal(e, plog \o <<"info:found_0_cleanup">>, kind, dirstate, there, fault)
Cleanup(e, plog, kind, dirstate, there, fault) ==
  IF ~dryrun
  THEN Removal(e, plog \o <<"info:found_0_cleanup">>, kind, dirstate, there, fault)
  ELSE [e EXCEPT !.outcome = "DRY_RUN",
                 !.log = plog \o <<"info:found_0_cleanup", "debug:dryrun_path",
                                   "debug:dryrun_file">>]

\* _safeRemoveClusterFiles(cfile) up to the call of util.runCommand2, as a
\* record: the terminal state when the call ends before the probe (with the
\* entry of the except clause in run() when it raises), or the call of
\* condor_q under way
SafeRemoveEntry(cfile) ==
  LET f    == FileAt(cfile)
      base == [NoEv EXCEPT !.op = "safeRemove", !.file = Split1(cfile)]
  IN
  IF ~f.exists
  THEN \* os.stat raises OSError
       [base EXCEPT !.outcome = "STAT_ERROR", !.log = <<"error:unhandled">>]
  ELSE IF TooYoung(f.mtime)
  THEN [base EXCEPT !.outcome = "TOO_YOUNG", !.log = <<"info:not_old_enough">>]
  ELSE IF f.kind = "corrupt"
  THEN \* pickle.load raises
       [base EXCEPT !.outcome = "PARSE_ERROR", !.log = <<"error:unhandled">>]
  ELSE IF f.kind = "notdict"
  THEN \* cdata.get raises AttributeError
       [base EXCEPT !.outcome = "PARSE_ERROR", !.loaded = TRUE,
                    !.log = <<"error:unhandled">>]
  ELSE IF CmdBuildRaises(f.kind)
  THEN [base EXCEPT !.outcome = "PROBE_ERROR", !.loaded = TRUE,
                    !.log = <<"info:checking", "error:unhandled">>]
  ELSE [base EXCEPT !.op = "runCommand2", !.loaded = TRUE,
                    !.log = <<"info:checking", "info:running">>]

\* the rest of the call, from the return of util.runCommand2: kind is the
\* record as it was loaded before the command ran, the work directory and
\* the record file are as they are now
SafeRemoveExit(cfile, kind, rc, out, err, fault) ==
  LET c    == Split1(cfile)
      base == [NoEv EXCEPT !.op = "safeRemove", !.file = c]
  IN
  IF fault = "probe"
  THEN \* util.runCommand2 raises
       [base EXCEPT !.outcome = "PROBE_ERROR", !.loaded = TRUE,
                    !.log = <<"info:checking", "info:running", "error:unhandled">>]
  ELSE
  LET jobsInQueue == CondorJobsInQueue(ClusterId, rc, out, err)
      probed == [base EXCEPT !.loaded = TRUE, !.probed = TRUE, !.id = ClusterId,
                             !.rc = rc, !.stdout = out, !.stderr = err,
                             !.jobs = jobsInQueue, !.was = dirs[c]]
      plog   == <<"info:checking", "info:running">>
                  \o (IF Len(err) > 0 THEN <<"error:probe_stderr">> ELSE <<>>)
  IN
  IF Eligible(jobsInQueue)
  THEN Cleanup(probed, plog, kind, dirs[c], FileAt(cfile).exists, fault)
  ELSE IF jobsInQueue > 0
  THEN [probed EXCEPT !.outcome = "LIVE", !.log = plog \o <<"info:still_in_queue">>]
  ELSE [probed EXCEPT !.outcome = "UNKNOWN", !.log = plog \o <<"error:unable_condor_q">>]

\* what one call of _safeRemoveClusterFiles(cfile) does when nothing else
\* runs while condor_q does
SafeRemoveResult(cfile, rc, out, err, fault) ==
  LET entry == SafeRemoveEntry(cfile)
  IN IF entry.op = "runCommand2"
     THEN SafeRemoveExit(cfile, FileAt(cfile).kind, rc, out, err, fault)
     ELSE entry

\* did the call raise into the except clause of run()
Raised(res) == res.outcome \in {"STAT_ERROR", "PARSE_ERROR", "PROBE_ERROR"}

\* where run() goes after the try block of one record: the except clause
\* swallows the exception and the for loop takes the next listed file
AfterRecord_Propagate(res, rest) ==
  IF Raised(res) THEN "crashed" ELSE IF rest = <<>> THEN "test" ELSE "process"
AfterRecord_CheckStop(res, rest) ==
  IF rest = <<>> \/ stopevent THEN "test" ELSE "process"
AfterRecord(res, rest) == IF rest = <<>> THEN "test" ELSE "process"

\* where the cleaner is while util.runCommand2 runs condor_q
CallPcs == {"condor_q", "answered"}

\* one iteration of the for loop in run(), first part: the try block around
\* _safeRemoveClusterFiles(c) for the next listed path, up to the point
\* where it ends or blocks in util.runCommand2
SafeRemoveCall ==
  /\ pc = "process"
  /\ LET cfile == Head(todo)
         r     == SafeRemoveEntry(cfile)
     IN /\ ev' = r
        /\ IF r.op = "runCommand2"
           THEN /\ pc' = "condor_q"
                /\ cdata' = FileAt(cfile).kind
                /\ UNCHANGED todo
           ELSE /\ pc' = AfterRecord(r, Tail(todo))
                /\ cdata' = ""
                /\ todo' = Tail(todo)
  /\ UNCHANGED <<stopevent, dryrun, sleeptime, deadline, now, files, dirs, queue, world, submitDir>>

\* second part: util.runCommand2 returns (or raises) and the call runs to
\* its end with what it loaded before the command ran
SafeRemoveReturn(rc, out, err, fault) ==
  /\ pc \in CallPcs
  /\ LET cfile == Head(todo)
         c     == Split1(cfile)
         r     == SafeRemoveExit(cfile, cdata, rc, out, err, fault)
     IN /\ ev' = r
        /\ dirs' = IF r.rmtree = "ok" THEN [dirs EXCEPT ![c] = "absent"]
                   ELSE IF /\ r.rmtree = "failed"
                           /\ cdata # "notmpdir"
                           /\ dirs[c] # "absent"
                           /\ fault = "rmtree_partial"
                        THEN [dirs EXCEPT ![c] = "partial"]
                        ELSE dirs
        /\ files' = IF r.remove = "ok" THEN [files EXCEPT ![c] = Gone] ELSE files
        /\ pc' = AfterRecord(r, Tail(todo))
  /\ todo' = Tail(todo)
  /\ cdata' = ""
  /\ UNCHANGED <<stopevent, dryrun, sleeptime, deadline, now, queue, world, submitDir>>

----------------------------------------------------------------------------
(* Environment: the other threads, the clock, the filesystem *)

Alive == pc \notin {"done", "crashed"}

\* another thread sets the stop event
Stop ==
  /\ Alive
  /\ ~stopevent
  /\ stopevent' = TRUE
  /\ ev' = NoEv
  /\ UNCHANGED <<pc, dryrun, sleeptime, deadline, now, todo, files, dirs, queue, world, first, submitDir, cdata>>

\* time passes
Tick(d) ==
  /\ Alive
  /\ now + d <= MaxNow
  /\ now' = now + d
  /\ ev' = NoEv
  /\ UNCHANGED <<pc, stopevent, dryrun, sleeptime, deadline, todo, files, dirs, queue, world, first, submitDir, cdata>>

\* a record file disappears (removed by something other than the cleaner)
Vanish(r) ==
  /\ Alive
  /\ files[r].exists
  /\ files' = [files EXCEPT ![r] = Gone]
  /\ ev' = NoEv
  /\ UNCHANGED <<pc, stopevent, dryrun, sleeptime, deadline, now, todo, dirs, queue, world, first, submitDir, cdata>>

\* the submission component writes a record file and its work directory
Submit(r) ==
  /\ Alive
  /\ ~files[r].exists
  /\ files' = [files EXCEPT ![r] = [exists |-> TRUE, mtime |-> now, kind |-> "ok"]]
  /\ dirs' = [dirs EXCEPT ![r] = "present"]
  /\ ev' = NoEv
  /\ UNCHANGED <<pc, stopevent, dryrun, sleeptime, deadline, now, todo, queue, world, first, submitDir, cdata>>

----------------------------------------------------------------------------

Next ==
  \/ LoopTest
  \/ Wake
  \/ \E v \in ConfigOutcomes : ConfigLookup(v)
  \/ \E order \in UNION { Orders(S) : S \in SUBSET Records } : Locate(order)
  \/ SafeRemoveCall /\ UNCHANGED first
  \/ \E rc \in ReturnCodes, out \in StdoutSamples, err \in StderrSamples, fault \in Faults :
        SafeRemoveReturn(rc, out, err, fault) /\ UNCHANGED first
  \/ Stop
  \/ \E d \in TickSteps : Tick(d)
  \/ \E r \in Records : Vanish(r)
  \/ \E r \in Records : Submit(r)

Spec == Init /\ [][Next]_vars

\* the steps of the cleaner thread; the thread keeps running as long as
\* every call it makes returns
ThreadNext ==
  \/ LoopTest
  \/ Wake
  \/ \E v \in ConfigOutcomes : ConfigLookup(v)
  \/ \E order \in UNION { Orders(S) : S \in SUBSET Records } : Locate(order)
  \/ SafeRemoveCall /\ UNCHANGED first
  \/ \E rc \in ReturnCodes, out \in StdoutSamples, err \in StderrSamples, fault \in Faults :
        SafeRemoveReturn(rc, out, err, fault) /\ UNCHANGED first

SpecFair == Init /\ [][Next]_vars /\ WF_vars(ThreadNext)

TypeOK ==
  /\ pc \in {"test", "sleep", "config", "locate", "process", "done", "crashed", "probe"}
           \cup CallPcs
  /\ submitDir \in SubmitDirs \cup {""}
  /\ cdata \in Kinds \cup {""}
  /\ pc \notin CallPcs => cdata = ""
  /\ pc # "locate" => submitDir = ""
  /\ \A i \in 1..Len(todo) : Split1(todo[i]) \in Records
  /\ stopevent \in BOOLEAN
  /\ dryrun \in BOOLEAN
  /\ sleeptime \in SleepTimes
  /\ now \in 0..MaxNow
  /\ deadline \in 0..(MaxNow + DefaultSleepTime * TicksPerSecond)
  /\ \A r \in Records : files[r].kind \in Kinds /\ dirs[r] \in {"present", "partial", "absent"}
  /\ \A r \in Records : queue[r] \in {"none", "pending", "live", "left"}
  /\ world.config \in SubmitDirs \cup {""}
  /\ \A r \in Records : world.of[r].fault \in Faults /\ world.of[r].rc \in ReturnCodes
  /\ \A r \in Records : first[r] \in Decisions \cup {""}

----------------------------------------------------------------------------
(* The queue prober on its own: every exit code, stdout and stderr *)

InitProbe ==
  /\ pc = "probe"
  /\ stopevent = FALSE
  /\ dryrun = FALSE
  /\ sleeptime = DefaultSleepTime
  /\ deadline = 0
  /\ now = 0
  /\ todo = <<>>
  /\ files = [r \in Records |-> Gone]
  /\ dirs = [r \in Records |-> "absent"]
  /\ queue = [r \in Records |-> "none"]
  /\ world = NoWorlds
  /\ first = [r \in Records |-> ""]
  /\ submitDir = ""
  /\ cdata = ""
  /\ \E id \in ClusterIds, rc \in ReturnCodes, out \in SeqsUpTo(MaxOutLen),
        err \in StderrSamples :
        ev = [NoEv EXCEPT !.op = "probe_call", !.id = id, !.rc = rc,
                          !.stdout = out, !.stderr = err]

ProbeCall ==
  /\ pc = "probe"
  /\ ev.op = "probe_call"
  /\ ev' = [ev EXCEPT !.op = "probe", !.probed = TRUE,
                      !.jobs = CondorJobsInQueue(ev.id, ev.rc, ev.stdout, ev.stderr)]
  /\ UNCHANGED <<pc, stopevent, dryrun, sleeptime, deadline, now, todo, files, dirs, queue, world, first, submitDir, cdata>>

NextProbe == ProbeCall

SpecProbe == InitProbe /\ [][NextProbe]_vars

----------------------------------------------------------------------------
(* The cleaner next to the submission component and the scheduler: the    *)
(* record file is written at submission, the scheduler makes the jobs      *)
(* visible to condor_q less than 300 seconds after the record file's       *)
(* modification time, and condor_q reports the queue as it is.             *)

InitRace ==
  /\ pc = "test"
  /\ stopevent = FALSE
  /\ dryrun = FALSE
  /\ sleeptime \in SleepTimes
  /\ deadline = 0
  /\ now = 0
  /\ todo = <<>>
  /\ files = [r \in Records |-> Gone]
  /\ dirs = [r \in Records |-> "absent"]
  /\ ev = NoEv
  /\ queue = [r \in Records |-> "none"]
  /\ world = NoWorlds
  /\ first = [r \in Records |-> ""]
  /\ submitDir = ""
  /\ cdata = ""

\* the submission component creates the work directory, hands the jobs to
\* the scheduler and writes the record file
SubmitJob(r) ==
  /\ Alive
  /\ ~files[r].exists
  /\ queue[r] \in {"none", "left"}
  /\ files' = [files EXCEPT ![r] = [exists |-> TRUE, mtime |-> now, kind |-> "ok"]]
  /\ dirs' = [dirs EXCEPT ![r] = "present"]
  /\ queue' = [queue EXCEPT ![r] = "pending"]
  /\ ev' = NoEv
  /\ UNCHANGED <<pc, stopevent, dryrun, sleeptime, deadline, now, todo, world, first, submitDir, cdata>>

\* the scheduler has taken the submission in: the jobs show in condor_q
Ingest(r) ==
  /\ Alive
  /\ queue[r] = "pending"
  /\ queue' = [queue EXCEPT ![r] = "live"]
  /\ ev' = NoEv
  /\ UNCHANGED <<pc, stopevent, dryrun, sleeptime, deadline, now, todo, files, dirs, world, first, submitDir, cdata>>

\* the jobs of the cluster complete or are removed
Finish(r) ==
  /\ Alive
  /\ queue[r] = "live"
  /\ queue' = [queue EXCEPT ![r] = "left"]
  /\ ev' = NoEv
  /\ UNCHANGED <<pc, stopevent, dryrun, sleeptime, deadline, now, todo, files, dirs, world, first, submitDir, cdata>>

\* at time t every submission not yet visible is less than 300 seconds
\* past the modification time of its record file
IngestedInTime(t) ==
  \A r \in Records :
    (queue[r] = "pending" /\ files[r].exists) =>
       t - files[r].mtime < AgeLimit * TicksPerSecond

TickRace(d) == IngestedInTime(now + d) /\ Tick(d)

\* stdout of condor_q when it reports the queue as it is: one line for the
\* cluster while its jobs are visible and live
TruthfulStdout(c) == IF queue[c] = "live" THEN <<SP, "4", "2", NL>> ELSE <<>>

\* condor_q reads the queue: what it will print is settled from here on
ReadQueue ==
  /\ pc = "condor_q"
  /\ pc' = "answered"
  /\ LET c == Split1(Head(todo))
     IN world' = [world EXCEPT !.of[c] = [NoWorld EXCEPT !.out = TruthfulStdout(c)]]
  /\ ev' = NoEv
  /\ UNCHANGED <<stopevent, dryrun, sleeptime, deadline, now, todo, files, dirs, queue, first, submitDir, cdata>>

\* util.runCommand2 returns what condor_q read
ProcessTruthful ==
  /\ pc = "answered"
  /\ \E fault \in Faults :
       SafeRemoveReturn(0, world.of[Split1(Head(todo))].out, <<>>, fault) /\ UNCHANGED first

NextRace ==
  \/ LoopTest
  \/ Wake
  \/ \E v \in ConfigOutcomes : ConfigLookup(v)
  \/ \E order \in UNION { Orders(S) : S \in SUBSET Records } : Locate(order)
  \/ SafeRemoveCall /\ UNCHANGED first
  \/ ReadQueue
  \/ ProcessTruthful
  \/ Stop
  \/ \E d \in TickSteps : TickRace(d)
  \/ \E r \in Records : SubmitJob(r)
  \/ \E r \in Records : Ingest(r)
  \/ \E r \in Records : Finish(r)

SpecRace == InitRace /\ [][NextRace]_vars

----------------------------------------------------------------------------
(* Pass after pass with nothing outside the cleaner changing: the clock    *)
(* stands still, the configuration value stays, no file is written or      *)
(* removed by anyone else, and for each record condor_q gives the same     *)
(* answer and the same filesystem call fails every time.                   *)

\* the answers and faults a record can meet; a filesystem fault only shows
\* when the probe reports an empty queue
Worlds ==
  { w \in [rc : ReturnCodes, out : StdoutSamples, err : StderrSamples, fault : Faults] :
      w.fault \in {"rmtree", "rmtree_partial", "remove"} =>
         (w.rc = 0 /\ w.out = <<>> /\ w.err = <<>>) }

\* the time of the passes: just under and just over 300 seconds
PassTimes == TickSteps

InitTwice ==
  /\ pc = "test"
  /\ stopevent = FALSE
  /\ dryrun \in BOOLEAN
  /\ sleeptime = 0
  /\ deadline = 0
  /\ now \in PassTimes
  /\ todo = <<>>
  /\ files \in [Records -> { [exists |-> TRUE, mtime |-> m, kind |-> k] :
                                m \in StartMtimes, k \in Kinds }]
  /\ Cardinality({ r \in Records : files[r].kind # "ok" }) <= MaxMalformed
  /\ dirs = [r \in Records |-> "present"]
  /\ ev = NoEv
  /\ queue = [r \in Records |-> "none"]
  /\ world \in [config : SubmitDirs, of : [Records -> Worlds]]
  /\ first = [r \in Records |-> ""]
  /\ submitDir = ""
  /\ cdata = ""

\* the decision of the first pass on a record is remembered
Remember(c, outcome) == [first EXCEPT ![c] = IF @ = "" THEN outcome ELSE @]

\* the next listed path is processed under what the outside holds for its
\* record
CallAgain ==
  /\ pc = "process"
  /\ SafeRemoveCall
  /\ first' = IF ev'.op = "runCommand2" THEN first
              ELSE Remember(Split1(Head(todo)), ev'.outcome)

ReturnAgain ==
  /\ pc = "condor_q"
  /\ LET c == Split1(Head(todo))
         w == world.of[c]
     IN /\ SafeRemoveReturn(w.rc, w.out, w.err, w.fault)
        /\ first' = Remember(c, ev'.outcome)

NextTwice ==
  \/ LoopTest
  \/ Wake
  \/ ConfigLookup(world.config)
  \/ \E order \in UNION { Orders(S) : S \in SUBSET Records } : Locate(order)
  \/ CallAgain
  \/ ReturnAgain

SpecTwice == InitTwice /\ [][NextTwice]_vars

----------------------------------------------------------------------------
(* Properties *)

\* the step of run() in which the call for the listed record file c ends
Processing(c) ==
  /\ pc \in {"process"} \cup CallPcs
  /\ todo # <<>>
  /\ Split1(Head(todo)) = c
  /\ todo' = Tail(todo)

\* the step in which a call blocks in util.runCommand2
Blocking == pc = "process" /\ pc' \in CallPcs

\* a step of the cleaner thread (the environment changes neither pc nor todo)
CleanerStep == pc' # pc \/ todo' # todo

PassPcs == {"config", "locate", "process"} \cup CallPcs

Occurrences(log, entry) == Cardinality({ i \in 1..Len(log) : log[i] = entry })

\* C1: the cleaner removes a record file only in a step in which the
\* recursive removal of its work_dir has succeeded first; when the work_dir
\* removal raises, the record file is left as it was.
C1_Step ==
  \A c \in Records :
    Processing(c) =>
      /\ (files[c].exists /\ ~files'[c].exists) =>
            (ev'.rmtree = "ok" /\ dirs[c] # "absent" /\ dirs'[c] = "absent")
      /\ ev'.rmtree = "failed" => files'[c] = files[c]
C1_RecordRemovedOnlyAfterWorkDir == [][C1_Step]_vars

C1_Witness ==
  /\ ev.op = "safeRemove"
  /\ ev.outcome = "PARTIAL_REMOVE_WORK_DIR_FAILED"
  /\ ev.jobs = 0
  /\ files[ev.file].exists
  /\ dirs[ev.file] \in {"present", "partial"}

\* C2: a removal is attempted only when the probe ran and returned exactly
\* 0; with a positive count or None neither work_dir nor the record file
\* changes, whatever dryrun is.
C2_Step ==
  /\ \A c \in Records :
       (Processing(c) /\ ~(ev'.probed /\ ev'.jobs = 0)) =>
         /\ files' = files
         /\ dirs' = dirs
         /\ ev'.rmtree = "none"
         /\ ev'.remove = "none"
  /\ Blocking => (files' = files /\ dirs' = dirs)
C2_RemovalOnlyOnZero == [][C2_Step]_vars

C2_Witness ==
  /\ ev.op = "safeRemove"
  /\ ev.probed
  /\ ev.jobs = None
  /\ ev.outcome = "UNKNOWN"
  /\ ~dryrun
  /\ files[ev.file].exists
  /\ dirs[ev.file] = "present"

\* C3: a record file whose age (the time since its modification time) is
\* under 300 seconds is left alone: nothing is removed, the record is not
\* loaded and the probe is not run; a record aged exactly 300 seconds
\* passes the guard.
C3_Step ==
  \A c \in Records :
    (Processing(c) /\ FileAt(Head(todo)).exists) =>
      /\ now - files[c].mtime < AgeLimit * TicksPerSecond =>
            /\ files' = files
            /\ dirs' = dirs
            /\ ev'.outcome = "TOO_YOUNG"
            /\ ~ev'.loaded
            /\ ~ev'.probed
      /\ now - files[c].mtime = AgeLimit * TicksPerSecond => ev'.outcome # "TOO_YOUNG"
C3_AgeGuard == [][C3_Step]_vars

\* C4: with dryrun set no step of the cleaner changes a work_dir or a
\* record file, and an eligible record (probe 0) gets exactly one 'would
\* have removed' entry for the path and one for the file.
C4_Step ==
  dryrun =>
    /\ CleanerStep => (files' = files /\ dirs' = dirs)
    /\ \A c \in Records :
         (Processing(c) /\ ev'.probed /\ ev'.jobs = 0) =>
            /\ Occurrences(ev'.log, "debug:dryrun_path") = 1
            /\ Occurrences(ev'.log, "debug:dryrun_file") = 1
C4_DryRunNeverMutates == [][C4_Step]_vars

C4_Witness ==
  /\ dryrun
  /\ ev.op = "safeRemove"
  /\ ev.outcome = "DRY_RUN"
  /\ ev.jobs = 0
  /\ files[ev.file].exists
  /\ now - files[ev.file].mtime >= AgeLimit * TicksPerSecond
  /\ dirs[ev.file] = "present"

\* C5: a pass that processes an orphaned record file (its work_dir is
\* already absent) with probe 0, age >= 300, dryrun false and no failure
\* of os.remove ends with the record file removed.
C5_OrphanRemoved ==
  ( /\ ev.op = "safeRemove"
    /\ ev.probed
    /\ ev.jobs = 0
    /\ ~dryrun
    /\ dirs[ev.file] = "absent"
    /\ ev.rmtree # "ok"
    /\ ev.remove # "failed" )
  => ~files[ev.file].exists

\* C6: a failure while processing one record is logged as an error, the
\* failing step removes nothing, and the for loop goes on to every
\* remaining listed record file.
FailedOutcomes ==
  {"STAT_ERROR", "PARSE_ERROR", "PROBE_ERROR",
   "PARTIAL_REMOVE_WORK_DIR_FAILED", "PARTIAL_REMOVE_RECORD_FAILED"}
ErrorEntries ==
  {"error:unhandled", "error:rmtree_failed", "error:remove_failed"}
C6_Step ==
  /\ (pc \in {"process"} \cup CallPcs /\ CleanerStep) =>
        /\ todo # <<>>
        /\ \/ Blocking /\ todo' = todo
           \/ /\ todo' = Tail(todo)
              /\ ev'.op = "safeRemove"
              /\ ev'.file = Split1(Head(todo))
              /\ pc' = IF Tail(todo) = <<>> THEN "test" ELSE "process"
  /\ \A c \in Records :
       (Processing(c) /\ ev'.outcome \in FailedOutcomes) =>
          /\ \E i \in 1..Len(ev'.log) : ev'.log[i] \in ErrorEntries
          /\ files' = files
          /\ ev'.outcome # "PARTIAL_REMOVE_RECORD_FAILED" =>
                (dirs[c] # "absent" => dirs'[c] # "absent")
C6_FailureDoesNotStopPass == [][C6_Step]_vars

C6_Witness ==
  /\ ev.op = "safeRemove"
  /\ ev.outcome = "PARSE_ERROR"
  /\ pc = "process"
  /\ todo # <<>>
  /\ FileAt(Head(todo)).exists
  /\ files[ev.file].exists

\* C7: run() ends only because the stop flag was raised: it never ends by
\* an exception, and when it has ended the stop flag is set.
C7_LoopEndsOnlyOnStop ==
  /\ pc # "crashed"
  /\ pc = "done" => stopevent

\* C8: when the wait ends with the stop flag set, the loop ends without
\* running another pass.
C8_Step == (pc = "sleep" /\ stopevent /\ pc' # pc) => pc' = "done"
C8_NoPassAfterStop == [][C8_Step]_vars

\* C9: a pass is entered only from the end of the wait of the same
\* iteration (the flag is set or the timeout has elapsed), and between the
\* loop test and the end of the wait the cleaner looks up nothing, lists
\* nothing, probes nothing and removes nothing.
C9_Step ==
  /\ (pc' \in PassPcs /\ pc \notin PassPcs) =>
        (pc = "sleep" /\ pc' = "config" /\ (stopevent \/ now >= deadline))
  /\ (pc \in {"test", "sleep"} /\ CleanerStep) =>
        /\ files' = files
        /\ dirs' = dirs
        /\ todo' = todo
        /\ ev' = NoEv
        /\ pc = "test" => pc' \in {"sleep", "done"}
C9_SleepBeforePass == [][C9_Step]_vars

C9_Witness ==
  /\ pc = "config"
  /\ ~stopevent
  /\ sleeptime = DefaultSleepTime
  /\ now >= DefaultSleepTime * TicksPerSecond

\* number of lines of out that begin with id after optional leading blanks
LinesBeginningWith(out, id) ==
  Cardinality({ i \in 1..Len(out) :
                  /\ LineStart(out, i)
                  /\ \E k \in i..Len(out) :
                       /\ \A j \in i..(k - 1) : out[j] = SP
                       /\ LitAt(out, k, id) })

\* C10: the probe returns None when stderr is non-empty, None when stderr
\* is empty and the exit code is non-zero, and otherwise the number of
\* stdout lines that begin with the cluster id after optional leading
\* whitespace.
C10_ProbeCount ==
  ev.probed =>
    ev.jobs = IF Len(ev.stderr) > 0 THEN None
              ELSE IF ev.rc # 0 THEN None
              ELSE LinesBeginningWith(ev.stdout, ev.id)

\* C11: when the configured submit directory is empty the pass lists
\* nothing, probes nothing and removes nothing, logs one error, and the
\* loop goes back to its test and from there to the next sleep.
C11_Step ==
  /\ (pc = "config" /\ CleanerStep /\ ev'.outcome = "NO_SUBMIT_DIR") =>
        /\ pc' = "test"
        /\ todo' = <<>>
        /\ files' = files
        /\ dirs' = dirs
        /\ ~ev'.probed
        /\ ev'.log = <<"error:no_submit_dir">>
  /\ (ev.outcome = "NO_SUBMIT_DIR" /\ CleanerStep) =>
        /\ pc = "test"
        /\ pc' = IF stopevent THEN "done" ELSE "sleep"
        /\ files' = files
        /\ dirs' = dirs
C11_EmptySubmitDirSkipsPass == [][C11_Step]_vars

C11_Witness ==
  /\ ev.outcome = "NO_SUBMIT_DIR"
  /\ pc = "test"
  /\ ~stopevent
  /\ ~dryrun
  /\ \E r \in Records :
       /\ files[r].exists
       /\ files[r].kind = "ok"
       /\ ~TooYoung(files[r].mtime)
       /\ dirs[r] = "present"

\* position of the first occurrence of entry in log, 0 when there is none
Position(log, entry) ==
  IF \E i \in 1..Len(log) : log[i] = entry
  THEN CHOOSE i \in 1..Len(log) :
         log[i] = entry /\ \A j \in 1..(i - 1) : log[j] # entry
  ELSE 0

\* C13: for a record past the age guard with probe 0 and dryrun false the
\* removal of work_dir is attempted, the record file is touched only after
\* that removal has succeeded, and when both removals succeed work_dir and
\* the record file are both absent, the path having been removed first.
C13_Step ==
  \A c \in Records :
    (Processing(c) /\ ~dryrun /\ ev'.probed /\ ev'.jobs = 0) =>
      /\ ev'.rmtree # "none"
      /\ ev'.remove # "none" => ev'.rmtree = "ok"
      /\ (files[c].exists /\ ~files'[c].exists) => dirs'[c] = "absent"
      /\ (ev'.rmtree = "ok" /\ ev'.remove = "ok") =>
            /\ dirs'[c] = "absent"
            /\ ~files'[c].exists
            /\ Position(ev'.log, "info:removed_path") > 0
            /\ Position(ev'.log, "info:removed_path")
                 < Position(ev'.log, "info:removed_file")
C13_WorkDirThenRecord == [][C13_Step]_vars

C13_Witness ==
  /\ ev.op = "safeRemove"
  /\ ev.outcome = "REMOVED"
  /\ ev.jobs = 0
  /\ ~dryrun
  /\ dirs[ev.file] = "absent"
  /\ ~files[ev.file].exists

\* C17: the paths a pass processes are exactly the record files that exist
\* in the submission root when the pass lists the directory, each once;
\* nothing is carried over from an earlier pass, and the pass processes the
\* listed files one by one.
C17_Step ==
  /\ (pc = "locate" /\ CleanerStep) =>
        /\ { todo'[i] : i \in 1..Len(todo') }
             = { Match(submitDir, r) : r \in { x \in Records : files[x].exists } }
        /\ Len(todo') = Cardinality({ r \in Records : files[r].exists })
        /\ pc' = IF todo' = <<>> THEN "test" ELSE "process"
  /\ (pc \in {"process"} \cup CallPcs /\ CleanerStep) =>
        /\ todo # <<>>
        /\ \/ Blocking /\ todo' = todo
           \/ ev'.file = Split1(Head(todo)) /\ todo' = Tail(todo)
  /\ (pc \notin {"locate", "process"} \cup CallPcs) => (todo = <<>> /\ todo' = <<>>)
C17_FreshScanEachPass == [][C17_Step]_vars

\* C18: the stop flag is not read between records: with the flag set in
\* the middle of a pass the for loop still processes the next listed record
\* file and goes on to the one after it; the loop ends only at its test.
C18_Step ==
  /\ (pc \in {"process"} \cup CallPcs /\ stopevent /\ CleanerStep) =>
        /\ todo # <<>>
        /\ \/ Blocking /\ todo' = todo
           \/ /\ ev'.op = "safeRemove"
              /\ ev'.file = Split1(Head(todo))
              /\ todo' = Tail(todo)
              /\ pc' = IF Len(todo) > 1 THEN "process" ELSE "test"
  /\ pc' = "done" => (pc = "done" \/ (pc = "test" /\ stopevent))
C18_StopNotReadBetweenRecords == [][C18_Step]_vars

C18_Witness ==
  /\ stopevent
  /\ pc = "process"
  /\ ev.op = "safeRemove"
  /\ ev.outcome = "REMOVED"
  /\ todo # <<>>
  /\ FileAt(Head(todo)).exists

\* C19: a record without clusterid is never probed and nothing of it is
\* removed (the error is logged at the per-record boundary); a record
\* without tmpdir whose probe returns 0 has its work_dir removal fail and
\* keeps its record file.
C19_Step ==
  \A c \in Records :
    (Processing(c) /\ FileAt(Head(todo)).exists) =>
      /\ files[c].kind = "noclusterid" =>
            /\ ~ev'.probed
            /\ ev'.rmtree = "none"
            /\ ev'.remove = "none"
            /\ files' = files
            /\ dirs' = dirs
            /\ ev'.loaded => Position(ev'.log, "error:unhandled") > 0
      /\ (files[c].kind = "notmpdir" /\ ev'.probed /\ ev'.jobs = 0 /\ ~dryrun) =>
            /\ ev'.rmtree = "failed"
            /\ ev'.remove = "none"
            /\ files' = files
            /\ dirs' = dirs
C19_MissingFieldNeverRemoves == [][C19_Step]_vars

C19_Witness ==
  /\ ev.op = "safeRemove"
  /\ ev.outcome = "PARTIAL_REMOVE_WORK_DIR_FAILED"
  /\ ev.jobs = 0
  /\ files[ev.file].exists
  /\ files[ev.file].kind = "notmpdir"
  /\ ~dryrun

\* C16: once the removal of a record's work_dir has failed and left the
\* record file and the work_dir (whole or in part) in place, every later
\* pass that processes the record with probe 0 and removes the work_dir
\* removes the record file too.
WorkDirFailed(c) ==
  /\ ev.op = "safeRemove"
  /\ ev.file = c
  /\ ev.outcome = "PARTIAL_REMOVE_WORK_DIR_FAILED"
  /\ files[c].exists
  /\ dirs[c] # "absent"
RetryRemovedWorkDir(c) ==
  /\ ev.op = "safeRemove"
  /\ ev.file = c
  /\ ev.probed
  /\ ev.jobs = 0
  /\ ev.rmtree = "ok"
C16_RetryRemovesRecord ==
  \A c \in Records :
    [](WorkDirFailed(c) =>
         [](RetryRemovedWorkDir(c) => ~files[c].exists))

\* C15: once the stop flag is raised run() eventually ends (a wait in
\* progress returns on the flag without the clock having to reach the end
\* of the interval), and once the loop test sees the flag no further sleep
\* is started.
Terminated == pc \in {"done", "crashed"}
C15_NoSleepAfterStopSeen ==
  (pc = "test" /\ stopevent /\ CleanerStep) => pc' = "done"
C15_StopTerminates ==
  /\ stopevent ~> Terminated
  /\ [][C15_NoSleepAfterStopSeen]_vars

\* a 600 second sleep has returned on the flag before its interval could end
C15_Witness ==
  /\ pc = "config"
  /\ stopevent
  /\ sleeptime = DefaultSleepTime
  /\ now < DefaultSleepTime * TicksPerSecond

\* C14: with ingestion within less than 300 seconds of the record file's
\* modification time and a truthful probe, the work_dir of a cluster whose
\* jobs are live in the queue is never removed, in whole or in part.
C14_LiveWorkDirKept ==
  \A r \in Records : queue[r] = "live" => dirs[r] = "present"

\* C12: with nothing outside the cleaner changing between passes, every pass
\* that processes a record the earlier passes left in place ends it in the
\* same terminal state (TOO_YOUNG, PARSE_ERROR, LIVE, UNKNOWN,
\* PARTIAL_REMOVE(work_dir_failed), PARTIAL_REMOVE(record_failed), ...) as
\* the first pass did.
C12_SecondPassSameDecision ==
  \A c \in Records :
    (ev.op = "safeRemove" /\ ev.file = c) => ev.outcome = first[c]

====
